---------------------------- MODULE Spec2Model ----------------------------
(***************************************************************************)
(* Model of the PIA MCP server: the tool dispatcher (server.py call_tool),  *)
(* the remote-call forwarder (tools/search_tools.py _forward_to_remote),    *)
(* the credential lookup (config.py Settings.API_KEY) and the JSON          *)
(* rendering of results (json.dumps(..., indent=2, ensure_ascii=False)).    *)
(*                                                                         *)
(* Text is a sequence of string pieces; the Python str it stands for is    *)
(* the concatenation of the pieces (Flat).  JSON text is produced and read *)
(* character by character (pieces of length one).                          *)
(***************************************************************************)
EXTENDS Integers, Sequences, FiniteSets, TLC

(***************************************************************************)
(* Python values                                                           *)
(***************************************************************************)

\* Python None / a present value, as a sequence of length 0 / 1.
None == <<>>

Some(x) == <<x>>

\* JSON-compatible Python values, tagged by type.  A str is a sequence of
\* pieces; the strs of a response body, which the forwarder scans and renders,
\* are given character by character.  An object (dict) is the sequence of its
\* <<key, value>> items in insertion order, keys unique.
JNull == [t |-> "null"]

JBool(b) == [t |-> "bool", b |-> b]

JInt(n) == [t |-> "int", n |-> n]

JStr(s) == [t |-> "str", s |-> s]

JArr(a) == [t |-> "arr", a |-> a]

JObj(o) == [t |-> "obj", o |-> o]

\* Concatenation of the pieces of a text: the Python str.
RECURSIVE Flat(_)
Flat(s) == IF s = <<>> THEN "" ELSE Head(s) \o Flat(Tail(s))

\* dict.__contains__ / dict.get / dict[key] = value on an item sequence.
HasKey(o, k) == \E i \in 1..Len(o) : o[i][1] = k

GetKey(o, k) == o[CHOOSE i \in 1..Len(o) : o[i][1] = k][2]

DictSet(o, k, v) ==
    IF HasKey(o, k)
    THEN [i \in 1..Len(o) |-> IF o[i][1] = k THEN <<k, v>> ELSE o[i]]
    ELSE Append(o, <<k, v>>)

(***************************************************************************)
(* json.dumps(value, indent=2, ensure_ascii=False)                         *)
(***************************************************************************)

DigitChars == <<"0", "1", "2", "3", "4", "5", "6", "7", "8", "9">>

\* str(n) for an int n: decimal digits, most significant first.
RECURSIVE NatToChars(_)
NatToChars(n) ==
    IF n < 10 THEN <<DigitChars[n + 1]>>
    ELSE NatToChars(n \div 10) \o <<DigitChars[(n % 10) + 1]>>

IntToChars(n) == IF n < 0 THEN <<"-">> \o NatToChars(0 - n) ELSE NatToChars(n)

\* json.encoder.py_encode_basestring: with ensure_ascii=False only the
\* quote, the backslash and control characters are escaped.
EscapeChar(c) ==
    CASE c = "\"" -> <<"\\", "\"">>
      [] c = "\\" -> <<"\\", "\\">>
      [] c = "\n" -> <<"\\", "n">>
      [] c = "\t" -> <<"\\", "t">>
      [] OTHER    -> <<c>>

RECURSIVE EscapeChars(_)
EscapeChars(s) ==
    IF s = <<>> THEN <<>> ELSE EscapeChar(Head(s)) \o EscapeChars(Tail(s))

EncodeString(s) == <<"\"">> \o EscapeChars(s) \o <<"\"">>

RECURSIVE Spaces(_)
Spaces(n) == IF n = 0 THEN <<>> ELSE <<" ">> \o Spaces(n - 1)

\* newline_indent of json.encoder._make_iterencode at nesting level lvl.
NewlineIndent(lvl) == <<"\n">> \o Spaces(2 * lvl)

RECURSIVE Dumps(_, _)
RECURSIVE DumpsItems(_, _, _)
RECURSIVE DumpsMembers(_, _, _)
DumpsItems(a, i, lvl) ==
    IF i > Len(a) THEN <<>>
    ELSE (IF i > 1 THEN <<",">> ELSE <<>>) \o NewlineIndent(lvl)
         \o Dumps(a[i], lvl) \o DumpsItems(a, i + 1, lvl)

DumpsMembers(o, i, lvl) ==
    IF i > Len(o) THEN <<>>
    ELSE (IF i > 1 THEN <<",">> ELSE <<>>) \o NewlineIndent(lvl)
         \o EncodeString(o[i][1]) \o <<":", " ">>
         \o Dumps(o[i][2], lvl) \o DumpsMembers(o, i + 1, lvl)

Dumps(v, lvl) ==
    CASE v.t = "null" -> <<"n", "u", "l", "l">>
      [] v.t = "bool" -> IF v.b THEN <<"t", "r", "u", "e">>
                         ELSE <<"f", "a", "l", "s", "e">>
      [] v.t = "int"  -> IntToChars(v.n)
      [] v.t = "str"  -> EncodeString(v.s)
      [] v.t = "arr"  -> IF v.a = <<>> THEN <<"[", "]">>
                         ELSE <<"[">> \o DumpsItems(v.a, 1, lvl + 1)
                              \o NewlineIndent(lvl) \o <<"]">>
      [] v.t = "obj"  -> IF v.o = <<>> THEN <<"{", "}">>
                         ELSE <<"{">> \o DumpsMembers(v.o, 1, lvl + 1)
                              \o NewlineIndent(lvl) \o <<"}">>

\* Variant: a result that is already a str is passed on as it is.
json_dumps_RawStr(v) == IF v.t = "str" THEN v.s ELSE Dumps(v, 0)

\* json.dumps(search_results, indent=2, ensure_ascii=False)
json_dumps(v) == Dumps(v, 0)

(***************************************************************************)
(* json.loads(text): the parse the round-trip property is stated with      *)
(***************************************************************************)

ParseFail == [ok |-> FALSE, val |-> JNull, pos |-> 0]

ParseOk(v, p) == [ok |-> TRUE, val |-> v, pos |-> p]

IsWs(c) == c \in {" ", "\n", "\t", "\r"}

IsDigit(c) == \E d \in 1..10 : DigitChars[d] = c

DigitVal(c) == (CHOOSE d \in 1..10 : DigitChars[d] = c) - 1

RECURSIVE SkipWs(_, _)
SkipWs(s, i) == IF i <= Len(s) /\ IsWs(s[i]) THEN SkipWs(s, i + 1) ELSE i

\* json.decoder.py_scanstring (strict): i is the position after the opening
\* quote; a raw control character or an unknown escape is an error.
RECURSIVE ScanString(_, _, _)
ScanString(s, i, acc) ==
    IF i > Len(s) THEN ParseFail
    ELSE IF s[i] = "\"" THEN ParseOk(acc, i + 1)
    ELSE IF s[i] \in {"\n", "\t", "\r"} THEN ParseFail
    ELSE IF s[i] = "\\" THEN
        IF i + 1 > Len(s) THEN ParseFail
        ELSE CASE s[i + 1] = "\"" -> ScanString(s, i + 2, Append(acc, "\""))
               [] s[i + 1] = "\\" -> ScanString(s, i + 2, Append(acc, "\\"))
               [] s[i + 1] = "/"  -> ScanString(s, i + 2, Append(acc, "/"))
               [] s[i + 1] = "n"  -> ScanString(s, i + 2, Append(acc, "\n"))
               [] s[i + 1] = "t"  -> ScanString(s, i + 2, Append(acc, "\t"))
               [] s[i + 1] = "r"  -> ScanString(s, i + 2, Append(acc, "\r"))
               [] OTHER           -> ParseFail
    ELSE ScanString(s, i + 1, Append(acc, s[i]))

\* NUMBER_RE restricted to integers: -?(0|[1-9][0-9]*)
RECURSIVE ScanDigits(_, _, _)
ScanDigits(s, i, acc) ==
    IF i <= Len(s) /\ IsDigit(s[i])
    THEN ScanDigits(s, i + 1, 10 * acc + DigitVal(s[i]))
    ELSE ParseOk(acc, i)

ScanNat(s, i) ==
    IF i > Len(s) \/ ~IsDigit(s[i]) THEN ParseFail
    ELSE IF s[i] = "0" THEN ParseOk(0, i + 1)
    ELSE ScanDigits(s, i, 0)

ScanNumber(s, i) ==
    IF s[i] = "-"
    THEN LET r == ScanNat(s, i + 1)
         IN  IF r.ok THEN ParseOk(JInt(0 - r.val), r.pos) ELSE ParseFail
    ELSE LET r == ScanNat(s, i)
         IN  IF r.ok THEN ParseOk(JInt(r.val), r.pos) ELSE ParseFail

\* s has the characters of word at positions i, i+1, ...
Matches(s, i, word) ==
    /\ i + Len(word) - 1 <= Len(s)
    /\ \A k \in 1..Len(word) : s[i + k - 1] = word[k]

RECURSIVE ScanOnce(_, _)
RECURSIVE ScanArray(_, _, _)
RECURSIVE ScanObject(_, _, _)
\* JSONArray: i is the position of the next element, acc the elements so far.
ScanArray(s, i, acc) ==
    LET r == ScanOnce(s, i)
    IN  IF ~r.ok THEN ParseFail
        ELSE LET j == SkipWs(s, r.pos)
             IN  IF j > Len(s) THEN ParseFail
                 ELSE IF s[j] = "]" THEN ParseOk(JArr(Append(acc, r.val)), j + 1)
                 ELSE IF s[j] = ","
                      THEN ScanArray(s, SkipWs(s, j + 1), Append(acc, r.val))
                 ELSE ParseFail

\* JSONObject: i is the position of the next key's opening quote.
ScanObject(s, i, acc) ==
    IF i > Len(s) \/ s[i] # "\"" THEN ParseFail
    ELSE LET k == ScanString(s, i + 1, <<>>)
         IN  IF ~k.ok THEN ParseFail
             ELSE LET c == SkipWs(s, k.pos)
                  IN  IF c > Len(s) \/ s[c] # ":" THEN ParseFail
                      ELSE LET r == ScanOnce(s, SkipWs(s, c + 1))
                           IN  IF ~r.ok THEN ParseFail
                               ELSE LET j   == SkipWs(s, r.pos)
                                        nxt == DictSet(acc, k.val, r.val)
                                    IN  IF j > Len(s) THEN ParseFail
                                        ELSE IF s[j] = "}"
                                             THEN ParseOk(JObj(nxt), j + 1)
                                        ELSE IF s[j] = ","
                                             THEN ScanObject(s, SkipWs(s, j + 1), nxt)
                                        ELSE ParseFail

\* json.scanner.py_make_scanner._scan_once at position i.
ScanOnce(s, i) ==
    IF i > Len(s) THEN ParseFail
    ELSE CASE s[i] = "\"" ->
                LET r == ScanString(s, i + 1, <<>>)
                IN  IF r.ok THEN ParseOk(JStr(r.val), r.pos) ELSE ParseFail
           [] s[i] = "{" ->
                LET j == SkipWs(s, i + 1)
                IN  IF j <= Len(s) /\ s[j] = "}" THEN ParseOk(JObj(<<>>), j + 1)
                    ELSE ScanObject(s, j, <<>>)
           [] s[i] = "[" ->
                LET j == SkipWs(s, i + 1)
                IN  IF j <= Len(s) /\ s[j] = "]" THEN ParseOk(JArr(<<>>), j + 1)
                    ELSE ScanArray(s, j, <<>>)
           [] s[i] = "n" ->
                IF Matches(s, i, <<"n", "u", "l", "l">>)
                THEN ParseOk(JNull, i + 4) ELSE ParseFail
           [] s[i] = "t" ->
                IF Matches(s, i, <<"t", "r", "u", "e">>)
                THEN ParseOk(JBool(TRUE), i + 4) ELSE ParseFail
           [] s[i] = "f" ->
                IF Matches(s, i, <<"f", "a", "l", "s", "e">>)
                THEN ParseOk(JBool(FALSE), i + 5) ELSE ParseFail
           [] s[i] = "-" \/ IsDigit(s[i]) -> ScanNumber(s, i)
           [] OTHER -> ParseFail

\* json.loads: one value between optional whitespace, nothing after it.
json_loads(s) ==
    LET r == ScanOnce(s, SkipWs(s, 1))
    IN  IF r.ok /\ SkipWs(s, r.pos) = Len(s) + 1 THEN r ELSE ParseFail

(***************************************************************************)
(* Python helpers used by the forwarder                                    *)
(***************************************************************************)

\* type(v).__name__ of a JSON-compatible Python value.
PyTypeName(v) ==
    CASE v.t = "null" -> "NoneType"
      [] v.t = "bool" -> "bool"
      [] v.t = "int"  -> "int"
      [] v.t = "str"  -> "str"
      [] v.t = "arr"  -> "list"
      [] v.t = "obj"  -> "dict"

\* str(v) as an f-string field formats it (scalars only).
PyStr(v) ==
    CASE v.t = "str"  -> v.s
      [] v.t = "null" -> <<"None">>
      [] v.t = "bool" -> IF v.b THEN <<"True">> ELSE <<"False">>
      [] v.t = "int"  -> IntToChars(v.n)

\* word in s, for two strs given character by character.
Contains(s, word) == \E i \in 1..(Len(s) + 1) : Matches(s, i, word)

\* An exception instance: its class, str(e), and for httpx.HTTPStatusError
\* the response it carries.
Exc(cls, msg) == [cls |-> cls, msg |-> msg, status |-> 0, text |-> <<>>]

HTTPStatusError(status, text) ==
    [cls |-> "HTTPStatusError", msg |-> <<"HTTP status error">>,
     status |-> status, text |-> text]

\* Variant: CancelledError derives from Exception, as it did before
\* Python 3.8.
IsException_Every(e) == TRUE

\* Variant: the handlers catch httpx's transport errors only.
IsException_TransportOnly(e) == e.cls \in {"ConnectError", "ReadTimeout"}

\* Classes that derive from Exception (asyncio.CancelledError does not).
IsException(e) == e.cls # "CancelledError"

\* How a piece of code ends: it returns a value or raises.
Return(v) == [kind |-> "return", value |-> v, exc |-> None]

Raise(e) == [kind |-> "raise", value |-> <<>>, exc |-> Some(e)]

\* [types.TextContent(type="text", text=...)]
TextContent(text) == [type |-> "text", text |-> text]

(***************************************************************************)
(* config.py                                                               *)
(***************************************************************************)

PIA_API_URL == "https://mcp.programintegrity.org/"

REQUEST_TIMEOUT == 60

\* Variant: the position of the last occurrence of v is taken.
ListIndex_Last(args, v) ==
    (CHOOSE i \in 1..Len(args) :
        /\ args[i] = v
        /\ \A j \in (i + 1)..Len(args) : args[j] # v) - 1

\* list.index: position of the first occurrence, counted from 0.
ListIndex(args, v) ==
    (CHOOSE i \in 1..Len(args) :
        /\ args[i] = v
        /\ \A j \in 1..(i - 1) : args[j] # v) - 1

\* Settings._get_api_key_from_args with args = sys.argv[1:].
GetApiKeyFromArgs(args) ==
    IF Len(args) < 2 THEN None
    ELSE IF ~(\E i \in 1..Len(args) : args[i] = "--api-key") THEN None
    ELSE LET api_key_index == ListIndex(args, "--api-key")
         IN  IF api_key_index + 1 >= Len(args) THEN None
             ELSE Some(args[api_key_index + 2])

ApiKeyRequiredMsg ==
    <<"PIA ", "API key is required", ". Please provide --api-key argument.">>

\* Variant: "if api_key is None" lets the empty string through.
API_KEY_NoneOnly(args) ==
    LET api_key == GetApiKeyFromArgs(args)
    IN  IF api_key = None
        THEN Raise(Exc("ValueError", ApiKeyRequiredMsg))
        ELSE Return(api_key[1])

\* Settings.API_KEY: "if not api_key" rejects None and the empty string.
API_KEY(args) ==
    LET api_key == GetApiKeyFromArgs(args)
    IN  IF api_key = None \/ api_key = Some("")
        THEN Raise(Exc("ValueError", ApiKeyRequiredMsg))
        ELSE Return(api_key[1])

(***************************************************************************)
(* tools/search_tools.py: _forward_to_remote                               *)
(***************************************************************************)

IsNotFilter(item) == item[1] # <<"filter">>

\* Variant: the filter is taken out of the forwarded arguments.
Payload_DropFilter(tool_name, arguments) ==
    [jsonrpc |-> "2.0", id |-> 1, method |-> "tools/call",
     params |-> [name |-> tool_name,
                 arguments |-> JObj(SelectSeq(arguments.o, IsNotFilter))]]

Payload(tool_name, arguments) ==
    [jsonrpc |-> "2.0", id |-> 1, method |-> "tools/call",
     params |-> [name |-> tool_name, arguments |-> arguments]]

Headers(api_key) ==
    ("Content-Type" :> "application/json") @@ ("x-api-key" :> api_key)

PostRequest(tool_name, arguments, api_key) ==
    [url |-> PIA_API_URL, json |-> Payload(tool_name, arguments),
     headers |-> Headers(api_key), timeout |-> REQUEST_TIMEOUT]

\* httpx.Response.is_success, the test of raise_for_status.
IsSuccess(status) == status >= 200 /\ status <= 299

ErrorKey == <<"e", "r", "r", "o", "r">>

ResultKey == <<"r", "e", "s", "u", "l", "t">>

MessageKey == <<"m", "e", "s", "s", "a", "g", "e">>

\* key in result, for the object response.json() returned.
PyIn(key, result) ==
    CASE result.t = "obj" -> Return(HasKey(result.o, key))
      [] result.t = "arr" -> Return(\E i \in 1..Len(result.a) : result.a[i] = JStr(key))
      [] result.t = "str" -> Return(Contains(result.s, key))
      [] OTHER -> Raise(Exc("TypeError",
                     <<"argument of type '", PyTypeName(result), "' is not iterable">>))

\* result[key] once key in result is known to hold.
PyGetItem(result, key) ==
    CASE result.t = "obj" -> Return(GetKey(result.o, key))
      [] result.t = "arr" -> Raise(Exc("TypeError",
                     <<"list indices must be integers or slices, not str">>))
      [] OTHER -> Raise(Exc("TypeError",
                     <<"string indices must be integers, not 'str'">>))

\* Variant: the message is looked up under the key "msg", which is absent.
ErrorMessage_WrongKey(err) ==
    IF err.t = "obj"
    THEN Return(IF HasKey(err.o, <<"m", "s", "g">>)
                THEN GetKey(err.o, <<"m", "s", "g">>)
                ELSE JStr(<<"Unknown error">>))
    ELSE Raise(Exc("AttributeError",
                   <<"'", PyTypeName(err), "' object has no attribute 'get'">>))

\* result["error"].get("message", "Unknown error")
ErrorMessage(err) ==
    IF err.t = "obj"
    THEN Return(IF HasKey(err.o, MessageKey) THEN GetKey(err.o, MessageKey)
                ELSE JStr(<<"Unknown error">>))
    ELSE Raise(Exc("AttributeError",
                   <<"'", PyTypeName(err), "' object has no attribute 'get'">>))

\* Variant: the result member is looked for before the error member.
ClassifyBody_ResultFirst(result) ==
    LET hasResult == PyIn(ResultKey, result)
    IN  IF hasResult.kind = "raise" THEN hasResult
        ELSE IF hasResult.value
        THEN LET search_results == PyGetItem(result, ResultKey)
             IN  IF search_results.kind = "raise" THEN search_results
                 ELSE Return(<<TextContent(json_dumps(search_results.value))>>)
        ELSE LET hasError == PyIn(ErrorKey, result)
             IN  IF hasError.kind = "raise" THEN hasError
                 ELSE IF hasError.value
                 THEN LET err == PyGetItem(result, ErrorKey)
                      IN  IF err.kind = "raise" THEN err
                          ELSE LET error_msg == ErrorMessage(err.value)
                               IN  IF error_msg.kind = "raise" THEN error_msg
                                   ELSE Return(<<TextContent(<<"API Error: ">>
                                                   \o PyStr(error_msg.value))>>)
                 ELSE Return(<<TextContent(<<"No results returned from API">>)>>)

\* Lines 562-578: the classification of the body of a 2xx response.
ClassifyBody(result) ==
    LET hasError == PyIn(ErrorKey, result)
    IN  IF hasError.kind = "raise" THEN hasError
        ELSE IF hasError.value
        THEN LET err == PyGetItem(result, ErrorKey)
             IN  IF err.kind = "raise" THEN err
                 ELSE LET error_msg == ErrorMessage(err.value)
                      IN  IF error_msg.kind = "raise" THEN error_msg
                          ELSE Return(<<TextContent(<<"API Error: ">>
                                                    \o PyStr(error_msg.value))>>)
        ELSE LET hasResult == PyIn(ResultKey, result)
             IN  IF hasResult.kind = "raise" THEN hasResult
                 ELSE IF hasResult.value
                 THEN LET search_results == PyGetItem(result, ResultKey)
                      IN  IF search_results.kind = "raise" THEN search_results
                          ELSE Return(<<TextContent(json_dumps(search_results.value))>>)
                 ELSE Return(<<TextContent(<<"No results returned from API">>)>>)

\* Variant: raise_for_status is not called, every body is classified.
AfterPost_NoRaiseForStatus(response) ==
    IF response.exc # None THEN Raise(response.exc[1])
    ELSE IF response.json = None
    THEN Raise(Exc("JSONDecodeError",
                   <<"Expecting value: line 1 column 1 (char 0)">>))
    ELSE ClassifyBody(response.json[1])

\* Lines 557-578: what the body of the "async with" does with the answer of
\* client.post: post raises, raise_for_status raises, response.json() raises
\* (the body is not JSON), or the body is classified.
AfterPost(response) ==
    IF response.exc # None THEN Raise(response.exc[1])
    ELSE IF ~IsSuccess(response.status)
    THEN Raise(HTTPStatusError(response.status, response.text))
    ELSE IF response.json = None
    THEN Raise(Exc("JSONDecodeError",
                   <<"Expecting value: line 1 column 1 (char 0)">>))
    ELSE ClassifyBody(response.json[1])

\* Variant: a ValueError (json.JSONDecodeError is one) raised after the
\* request is taken for the missing credential.
ForwardExcept_ValueErrorIsKey(r) ==
    IF r.kind = "return" THEN r
    ELSE LET e == r.exc[1]
         IN  IF e.cls = "HTTPStatusError"
             THEN Return(<<TextContent(<<"HTTP Error ">> \o IntToChars(e.status)
                                       \o <<": ">> \o e.text)>>)
             ELSE IF e.cls \in {"ValueError", "JSONDecodeError"}
             THEN Return(<<TextContent(<<"Error: ">> \o e.msg
                                       \o <<" Configure API key in MCP server settings.">>)>>)
             ELSE IF IsException(e)
             THEN Return(<<TextContent(<<"Error: ">> \o e.msg)>>)
             ELSE r

\* Lines 580-590: the two except clauses of _forward_to_remote.
ForwardExcept(r) ==
    IF r.kind = "return" THEN r
    ELSE LET e == r.exc[1]
         IN  IF e.cls = "HTTPStatusError"
             THEN Return(<<TextContent(<<"HTTP Error ">> \o IntToChars(e.status)
                                       \o <<": ">> \o e.text)>>)
             ELSE IF IsException(e)
             THEN Return(<<TextContent(<<"Error: ">> \o e.msg)>>)
             ELSE r

\* A record handed to the logger of search_tools.py.
LogRecord(level, msg) == [level |-> level, msg |-> msg]

\* api_key[:10], the keys being those of ArgvChoices: a str cannot be cut in
\* TLA+, so the first ten characters of the longer keys are written out.
FirstTen(api_key) ==
    IF Len(api_key) <= 10 THEN api_key
    ELSE CASE api_key = "key-0001-alpha" -> "key-0001-a"
           [] api_key = "key-0002-beta" -> "key-0002-b"

\* Lines 536-539: logger.info("API_KEY retrieved successfully: %s...", ...).
LogKeyRetrieved(api_key) ==
    LogRecord("INFO", <<"API_KEY retrieved successfully: ",
                        IF api_key # "" THEN FirstTen(api_key)
                        ELSE "API_KEY is None or empty",
                        "...">>)

\* Line 541: logger.error("Failed to retrieve API key: %s", str(e)).
LogKeyFailed(e) ==
    LogRecord("ERROR", <<"Failed to retrieve API key: ">> \o e.msg)

\* Lines 550-554: logger.info("Making API call to %s with headers: %s",
\* settings.PIA_API_URL, dict(headers)); %s formats the dict by its repr.
LogMakingCall(headers) ==
    LogRecord("INFO", <<"Making API call to ", PIA_API_URL, " with headers: ",
                        "{'Content-Type': '", headers["Content-Type"],
                        "', 'x-api-key': '", headers["x-api-key"], "'}">>)

\* Lines 581 and 589: the record each except clause of _forward_to_remote
\* writes for what the body of the try raised.
LogExcept(tool_name, r) ==
    IF r.kind = "return" THEN <<>>
    ELSE LET e == r.exc[1]
         IN  IF e.cls = "HTTPStatusError"
             THEN <<LogRecord("ERROR", <<"HTTP error during ", tool_name, ": ">>
                                       \o e.msg)>>
             ELSE IF IsException(e)
             THEN <<LogRecord("ERROR", <<"Error during ", tool_name, ": ">>
                                       \o e.msg)>>
             ELSE <<>>

\* Lines 540-547: the missing credential.
ConfigureHint == " Configure API key in MCP server settings."

MissingKeyResult(e) ==
    Return(<<TextContent(<<"Error: ">> \o e.msg \o <<ConfigureHint>>)>>)

(***************************************************************************)
(* server.py: list_tools and call_tool                                     *)
(***************************************************************************)

\* Variant: the executive-orders tool is listed under the name of the tool
\* it was copied from.
ListTools_DuplicateName ==
    <<"pia_search_content", "pia_search_content_facets", "pia_search_titles",
      "pia_search_titles_facets", "pia_search_content_gao",
      "pia_search_content_oig", "pia_search_content_crs",
      "pia_search_content_doj", "pia_search_content_congress",
      "pia_search_content_congress", "search", "fetch">>

\* list_tools: the names of the registered tools, in registration order.
ListTools ==
    <<"pia_search_content", "pia_search_content_facets", "pia_search_titles",
      "pia_search_titles_facets", "pia_search_content_gao",
      "pia_search_content_oig", "pia_search_content_crs",
      "pia_search_content_doj", "pia_search_content_congress",
      "pia_search_content_executive_orders", "search", "fetch">>

\* Variant: the executive-orders handler, copied from the content handler,
\* still forwards under the content tool's name.
Dispatch_CopiedHandler(name) ==
    CASE name = "pia_search_content" -> Some("pia_search_content")
      [] name = "pia_search_content_facets" -> Some("pia_search_content_facets")
      [] name = "pia_search_titles" -> Some("pia_search_titles")
      [] name = "pia_search_titles_facets" -> Some("pia_search_titles_facets")
      [] name = "pia_search_content_gao" -> Some("pia_search_content_gao")
      [] name = "pia_search_content_oig" -> Some("pia_search_content_oig")
      [] name = "pia_search_content_crs" -> Some("pia_search_content_crs")
      [] name = "pia_search_content_doj" -> Some("pia_search_content_doj")
      [] name = "pia_search_content_congress" -> Some("pia_search_content_congress")
      [] name = "pia_search_content_executive_orders" -> Some("pia_search_content")
      [] name = "search" -> Some("search")
      [] name = "fetch" -> Some("fetch")
      [] OTHER -> None

\* Variant: the chain has no branch for the tool registered last of the
\* search tools.
Dispatch_MissingBranch(name) ==
    CASE name = "pia_search_content" -> Some("pia_search_content")
      [] name = "pia_search_content_facets" -> Some("pia_search_content_facets")
      [] name = "pia_search_titles" -> Some("pia_search_titles")
      [] name = "pia_search_titles_facets" -> Some("pia_search_titles_facets")
      [] name = "pia_search_content_gao" -> Some("pia_search_content_gao")
      [] name = "pia_search_content_oig" -> Some("pia_search_content_oig")
      [] name = "pia_search_content_crs" -> Some("pia_search_content_crs")
      [] name = "pia_search_content_doj" -> Some("pia_search_content_doj")
      [] name = "pia_search_content_congress" -> Some("pia_search_content_congress")
      [] name = "search" -> Some("search")
      [] name = "fetch" -> Some("fetch")
      [] OTHER -> None

\* The if/elif chain of call_tool with the handler each branch awaits: the
\* name the handler passes to _forward_to_remote, or None for the else branch.
Dispatch(name) ==
    CASE name = "pia_search_content" -> Some("pia_search_content")
      [] name = "pia_search_content_facets" -> Some("pia_search_content_facets")
      [] name = "pia_search_titles" -> Some("pia_search_titles")
      [] name = "pia_search_titles_facets" -> Some("pia_search_titles_facets")
      [] name = "pia_search_content_gao" -> Some("pia_search_content_gao")
      [] name = "pia_search_content_oig" -> Some("pia_search_content_oig")
      [] name = "pia_search_content_crs" -> Some("pia_search_content_crs")
      [] name = "pia_search_content_doj" -> Some("pia_search_content_doj")
      [] name = "pia_search_content_congress" -> Some("pia_search_content_congress")
      [] name = "pia_search_content_executive_orders" ->
             Some("pia_search_content_executive_orders")
      [] name = "search" -> Some("search")
      [] name = "fetch" -> Some("fetch")
      [] OTHER -> None

\* Variant: the name is not interpolated into the message.
UnknownToolResult_NoName(name) ==
    Return(<<TextContent(<<"Error: Unknown tool {name}">>)>>)

UnknownToolResult(name) ==
    Return(<<TextContent(<<"Error: ", "Unknown tool ", name>>)>>)

\* Lines 117-119: the except clause of call_tool.
CallToolExcept(r) ==
    IF r.kind = "return" THEN r
    ELSE LET e == r.exc[1]
         IN  IF IsException(e)
             THEN Return(<<TextContent(<<"Error: ">> \o e.msg)>>)
             ELSE r

(***************************************************************************)
(* prompts/handlers.py: list_prompts and get_prompt                        *)
(***************************************************************************)

AVAILABLE_PROMPTS ==
    <<[name |-> "summarization_guidance",
       description |-> "Provides guidance on how to summarize information from PIA search results with proper citations",
       arguments |-> <<>>],
      [name |-> "content_search_guidance",
       description |-> "Provides guidance on how to perform PIA content searches with or without filters",
       arguments |-> <<>>],
      [name |-> "titles_search_guidance",
       description |-> "Provides guidance on how to search PIA document titles to discover available documents",
       arguments |-> <<>>],
      [name |-> "recommendations_guidance",
       description |-> "Provides guidance for questions about oversight recommendations data and how to search for recommendation information",
       arguments |-> <<>>]>>

\* types.PromptArgument(name=..., description=..., required=...)
PromptArgument(arg) ==
    [name |-> arg.name, description |-> arg.description, required |-> arg.required]

\* Variant: each prompt is listed with its name for a description.
list_prompts_NameAsDescription ==
    [i \in 1..Len(AVAILABLE_PROMPTS) |->
        [name |-> AVAILABLE_PROMPTS[i].name,
         description |-> AVAILABLE_PROMPTS[i].name,
         arguments |-> [k \in 1..Len(AVAILABLE_PROMPTS[i].arguments) |->
                           PromptArgument(AVAILABLE_PROMPTS[i].arguments[k])]]]

\* list_prompts: one types.Prompt per entry of AVAILABLE_PROMPTS, in order.
list_prompts ==
    [i \in 1..Len(AVAILABLE_PROMPTS) |->
        [name |-> AVAILABLE_PROMPTS[i].name,
         description |-> AVAILABLE_PROMPTS[i].description,
         arguments |-> [k \in 1..Len(AVAILABLE_PROMPTS[i].arguments) |->
                           PromptArgument(AVAILABLE_PROMPTS[i].arguments[k])]]]

\* The four templates are string constants.  Each is given by its opening
\* line, the passages that stand for something to be filled in, and its
\* closing line; the lines between them are left out.
SummarizationGuidance ==
    <<"You are an assistant that summarizes information **only** from the provided search results.\n",
      "Input to use:\n", "<SEARCH_RESULTS>", "\n",
      "<Your fact-based summary here with inline [n] citations>", "\n",
      "- If you can't find enough information for a point, omit it entirely.">>

\* Variant: the template closes with a field that nothing fills in.
ContentSearchGuidance_UnfilledField ==
    <<"You can perform searches using the PIA Search tools with or without filters.\n",
      "     {\n       \"query\": \"fraud detection\",\n",
      "       \"filter\": \"data_source eq 'GAO' and year ge 2021\"\n     }\n",
      "- Fall back to unfiltered if filtering produces zero results and it hasn't already been run.",
      "\nArguments: ", "{arguments}">>

ContentSearchGuidance ==
    <<"You can perform searches using the PIA Search tools with or without filters.\n",
      "     {\n       \"query\": \"fraud detection\",\n",
      "       \"filter\": \"data_source eq 'GAO' and year ge 2021\"\n     }\n",
      "- Fall back to unfiltered if filtering produces zero results and it hasn't already been run.">>

TitlesSearchGuidance ==
    <<"You can search document titles using the PIA title search tools to discover what documents are available.\n",
      "     {\n       \"query\": \"audit report\",\n",
      "       \"filter\": \"SourceDocumentDataSource eq 'GAO' and SourceDocumentTitle contains 'fraud'\"\n     }\n",
      "- Always validate filter fields/values before applying them">>

RecommendationsGuidance ==
    <<"You can search and analyze oversight recommendations data using the PIA Search tools.\n",
      "SourceDocumentDataSet eq 'Open Recommendations' and ", "[AgencyField]",
      " eq 'AgencyName'",
      "6. Direct users to additional resources when appropriate">>

\* repr of a Dict[str, str] as an f-string field formats it.
RECURSIVE ReprItems(_, _)
ReprItems(o, i) ==
    IF i > Len(o) THEN <<>>
    ELSE LET sep == IF i > 1 THEN <<", ">> ELSE <<>>
             key == o[i][1]
             value == o[i][2].s
         IN  sep \o <<"'">> \o key \o <<"': '">> \o value \o <<"'">>
             \o ReprItems(o, i + 1)

DictRepr(d) == <<"{">> \o ReprItems(d.o, 1) \o <<"}">>

\* Variant: the arguments that were passed are put at the end of every
\* template.
PromptContent_WithArguments(name, arguments) ==
    LET args == IF arguments = None \/ arguments = Some(JObj(<<>>))
                THEN JObj(<<>>) ELSE arguments[1]
        tail == IF args = JObj(<<>>) THEN <<>> ELSE <<"\n">> \o DictRepr(args)
    IN  CASE name = "summarization_guidance" -> SummarizationGuidance \o tail
          [] name = "content_search_guidance" -> ContentSearchGuidance \o tail
          [] name = "titles_search_guidance" -> TitlesSearchGuidance \o tail
          [] name = "recommendations_guidance" -> RecommendationsGuidance \o tail
          [] OTHER -> <<"Prompt template for ", name,
                        " - implement specific logic based on arguments: ">>
                      \o DictRepr(args)

\* Lines 73-85: "arguments or {}" and the if/elif chain that picks the content.
PromptContent(name, arguments) ==
    LET args == IF arguments = None \/ arguments = Some(JObj(<<>>))
                THEN JObj(<<>>) ELSE arguments[1]
    IN  CASE name = "summarization_guidance" -> SummarizationGuidance
          [] name = "content_search_guidance" -> ContentSearchGuidance
          [] name = "titles_search_guidance" -> TitlesSearchGuidance
          [] name = "recommendations_guidance" -> RecommendationsGuidance
          [] OTHER -> <<"Prompt template for ", name,
                        " - implement specific logic based on arguments: ">>
                      \o DictRepr(args)

\* Variant: a name that is not in the catalog gets the generic template.
get_prompt_NoLookupCheck(name, arguments) ==
    IF ~(\E i \in 1..Len(AVAILABLE_PROMPTS) : AVAILABLE_PROMPTS[i].name = name)
    THEN Return([description |-> "",
                 messages |-> <<[role |-> "user",
                                 content |-> TextContent(
                                     PromptContent(name, arguments))]>>])
    ELSE LET prompt_data ==
                 AVAILABLE_PROMPTS[CHOOSE i \in 1..Len(AVAILABLE_PROMPTS) :
                     /\ AVAILABLE_PROMPTS[i].name = name
                     /\ \A j \in 1..(i - 1) : AVAILABLE_PROMPTS[j].name # name]
         IN  Return([description |-> prompt_data.description,
                     messages |-> <<[role |-> "user",
                                     content |-> TextContent(
                                         PromptContent(name, arguments))]>>])

\* handlers.get_prompt(name, arguments), arguments being None or a dict;
\* server.get_prompt returns what it returns and raises what it raises.
get_prompt(name, arguments) ==
    IF ~(\E i \in 1..Len(AVAILABLE_PROMPTS) : AVAILABLE_PROMPTS[i].name = name)
    THEN Raise(Exc("ValueError", <<"Prompt '", name, "' not found">>))
    ELSE LET prompt_data ==
                 AVAILABLE_PROMPTS[CHOOSE i \in 1..Len(AVAILABLE_PROMPTS) :
                     /\ AVAILABLE_PROMPTS[i].name = name
                     /\ \A j \in 1..(i - 1) : AVAILABLE_PROMPTS[j].name # name]
         IN  Return([description |-> prompt_data.description,
                     messages |-> <<[role |-> "user",
                                     content |-> TextContent(
                                         PromptContent(name, arguments))]>>])

(***************************************************************************)
(* Inputs the environment can supply                                       *)
(***************************************************************************)

\* The cap on the number of call_tool invocations in one behaviour.
MaxCalls == 3

\* The invocations the hosting runtime may have in progress at once.
Tasks == {"t1", "t2"}

NoArgs == JObj(<<>>)

FilterArgs ==
    JObj(<< <<(<<"query">>), JStr(<<"ambulance fraud">>)>>,
            <<(<<"filter">>), JStr(<<"data_source eq 'GAO'">>)>> >>)

AllArgs ==
    JObj(<< <<(<<"query">>), JStr(<<"fraud">>)>>,
            <<(<<"filter">>), JStr(<<"SourceDocumentDataSource eq 'GAO'">>)>>,
            <<(<<"page">>), JInt(2)>>,
            <<(<<"page_size">>), JInt(5)>>,
            <<(<<"search_mode">>), JStr(<<"hybrid">>)>>,
            <<(<<"limit">>), JInt(3)>>,
            <<(<<"include_facets">>), JBool(FALSE)>> >>)

FetchArgs == JObj(<< <<(<<"id">>), JStr(<<"doc-123">>)>> >>)

\* Names that are not registered: an arbitrary one, a registered name in
\* another case, and the names of the tool modules server.py does not import.
UnknownNames ==
    {"nonexistent_tool_xyz", "Fetch", "pia_search", "pia_search_facets",
     "get_rate_limit_stats"}

RegisteredNames == {ListTools[i] : i \in 1..Len(ListTools)}

\* sys.argv[1:] as the process may see it.
KeyA == "key-0001-alpha"

KeyB == "key-0002-beta"

ArgvChoices ==
    {<<>>, <<"--api-key", "">>, <<"--api-key", KeyA>>,
     <<"--debug", "--api-key", KeyB>>}

\* What client.post and the response it returns can be.
HttpResponse(status, text, json) ==
    [status |-> status, text |-> text, json |-> json, exc |-> None]

PostRaises(e) == [status |-> 0, text |-> <<>>, json |-> None, exc |-> Some(e)]

MsgInvalidKey ==
    <<"I", "n", "v", "a", "l", "i", "d", " ", "A", "P", "I", " ", "k", "e", "y">>

MsgQuoted == <<"b", "a", "d", " ", "\"", "q", "\"", " ", "é">>

ErrorObject(code, message) ==
    JObj(<< <<(<<"c", "o", "d", "e">>), JInt(code)>>, <<MessageKey, JStr(message)>> >>)

\* Results (the result member of a 2xx body).
DocumentsResult ==
    JObj(<< <<(<<"d", "o", "c", "s">>),
              JArr(<< JObj(<< <<(<<"t", "i", "t", "l", "e">>),
                                JStr(<<"T", "e", "s", "t", " ", "D", "o", "c">>)>>,
                              <<(<<"i", "d">>), JStr(<<"1", "2", "3">>)>> >>) >>)>>,
            <<(<<"t", "o", "t", "a", "l">>), JInt(1)>> >>)

UnsortedResult ==
    JObj(<< <<(<<"z">>), JInt(-40)>>,
            <<(<<"a">>), JArr(<<JNull, JBool(TRUE), JArr(<<>>), JObj(<<>>)>>)>>,
            <<(<<>>), JStr(<<>>)>> >>)

EscapesResult ==
    JArr(<< JStr(<<"s", "a", "y", " ", "\"", "h", "i", "\"">>),
            JStr(<<"C", ":", "\\", "n", "e", "w">>),
            JStr(<<"l", "1", "\n", "\t", "l", "2">>),
            JStr(<<"c", "a", "f", "é", " ", "ñ", "ü">>),
            JStr(<<"{", "\"", "e", "r", "r", "o", "r", "\"", ":", "1", "}">>) >>)

Results ==
    {JNull, JBool(FALSE), JInt(0), JInt(1207), JStr(<<>>),
     JStr(<<"n", "u", "l", "l">>), JArr(<<>>), JObj(<<>>),
     DocumentsResult, UnsortedResult, EscapesResult}

ResultBody(r) ==
    JObj(<< <<(<<"j", "s", "o", "n", "r", "p", "c">>), JStr(<<"2", ".", "0">>)>>,
            <<(<<"i", "d">>), JInt(1)>>, <<ResultKey, r>> >>)

ErrorBody(e) ==
    JObj(<< <<(<<"j", "s", "o", "n", "r", "p", "c">>), JStr(<<"2", ".", "0">>)>>,
            <<(<<"i", "d">>), JInt(1)>>, <<ErrorKey, e>> >>)

SuccessResponses ==
    {HttpResponse(200, <<"{...}">>, Some(ResultBody(r))) : r \in Results}
    \cup {HttpResponse(201, <<"{...}">>, Some(ResultBody(DocumentsResult)))}

ErrorResponses ==
    {HttpResponse(200, <<"{...}">>, Some(ErrorBody(ErrorObject(-32000, m)))) :
        m \in {MsgInvalidKey, MsgQuoted, <<>>}}

\* 2xx bodies that are neither of the two JSON-RPC shapes.
OddResponses ==
    {HttpResponse(200, <<"{...}">>, Some(b)) :
        b \in {JObj(<<>>),
               ErrorBody(JObj(<< <<(<<"c", "o", "d", "e">>), JInt(-32601)>> >>)),
               JObj(<< <<ErrorKey, ErrorObject(-32000, MsgInvalidKey)>>,
                       <<ResultKey, DocumentsResult>> >>),
               JObj(<< <<ResultKey, DocumentsResult>>, <<ErrorKey, JNull>> >>),
               JArr(<<JInt(1)>>), JInt(7), JStr(ErrorKey)}}

\* Non-2xx answers; the second body is a JSON-RPC error the code must not read.
StatusResponses ==
    {HttpResponse(500, <<"Server Error">>, None),
     HttpResponse(404, <<"{\"error\": {\"message\": \"gone\"}}">>,
                  Some(ErrorBody(ErrorObject(-1, <<"g", "o", "n", "e">>)))),
     HttpResponse(300, <<>>, None),
     HttpResponse(199, <<"early">>, Some(ResultBody(JInt(0))))}

\* client.post raises (connection refused, timeout), or the 2xx body is not JSON.
FailedResponses ==
    {PostRaises(Exc("ConnectError", <<"All connection attempts failed">>)),
     PostRaises(Exc("ReadTimeout", <<>>)),
     PostRaises(Exc("Exception", <<"Test error">>)),
     HttpResponse(200, <<"<html>">>, None)}

Responses ==
    SuccessResponses \cup ErrorResponses \cup OddResponses
    \cup StatusResponses \cup FailedResponses

\* The first task draws from all names and answers; the second, which runs
\* beside it, from a few of them.  The content search is invoked with every
\* argument bag, the other tools with one or two.
NamesOf(t) ==
    IF t = "t1" THEN RegisteredNames \cup UnknownNames
    ELSE {"search", "nonexistent_tool_xyz"}

ArgsOf(t, name) ==
    IF t # "t1" THEN {FetchArgs}
    ELSE IF name = "pia_search_content" THEN {NoArgs, FilterArgs, AllArgs, FetchArgs}
    ELSE IF name = "fetch" THEN {NoArgs, FetchArgs}
    ELSE IF name \in RegisteredNames THEN {FilterArgs}
    ELSE {NoArgs, AllArgs}

ResponsesOf(t) ==
    IF t = "t1" THEN Responses
    ELSE {HttpResponse(200, <<"{...}">>, Some(ResultBody(JInt(0)))),
          HttpResponse(500, <<"Server Error">>, None)}

\* Prompt names the runtime asks for, and the argument bags it passes.
PromptNames ==
    {AVAILABLE_PROMPTS[i].name : i \in 1..Len(AVAILABLE_PROMPTS)}
    \cup {"search_guidance", "Summarization_Guidance"}

PromptArgs ==
    {None, Some(JObj(<<>>)),
     Some(JObj(<< <<(<<"topic">>), JStr(<<"{name}">>)>> >>))}

\* The longest sys.argv[1:] the credential lookup is tried on.
MaxArgs == 3

ArgWords == {"--api-key", "", KeyA, KeyB}

\* Every argument list of at most n words.
RECURSIVE ArgLists(_)
ArgLists(n) ==
    IF n = 0 THEN {<<>>}
    ELSE ArgLists(n - 1)
         \cup {Append(a, w) : a \in {b \in ArgLists(n - 1) : Len(b) = n - 1},
                              w \in ArgWords}

(***************************************************************************)
(* State                                                                   *)
(***************************************************************************)

VARIABLES
    argv,    \* sys.argv[1:]
    task,    \* the call_tool invocation of each task
    calls,   \* call_tool invocations started so far
    posts,   \* client.post calls made so far
    reply    \* the last list_tools, list_prompts, get_prompt or API_KEY answer

vars == <<argv, task, calls, posts, reply>>

\* Nothing but call_tool has been asked yet.
NoReply == [op |-> "none", name |-> "", arguments |-> None, result |-> <<>>]

\* A task with no invocation in progress.
Idle ==
    [pc |-> "idle", name |-> "", arguments |-> NoArgs, api_key |-> None,
     opened |-> 0, sent |-> 0, request |-> None, response |-> None,
     outcome |-> None, log |-> <<>>]

Init ==
    /\ argv \in ArgvChoices
    /\ task = [t \in Tasks |-> Idle]
    /\ calls = 0
    /\ posts = 0
    /\ reply = NoReply

\* Variant: the credential of an invocation still in hand is used again
\* instead of being resolved anew.
ForwardStart_CachedKey(inv, tool_name, args) ==
    LET held == {t \in Tasks : task[t].api_key # None}
        key == IF held # {}
               THEN Return(task[CHOOSE t \in held : TRUE].api_key[1])
               ELSE API_KEY(args)
    IN  IF key.kind = "raise"
        THEN [inv EXCEPT !.pc = "done",
                         !.outcome = Some(CallToolExcept(ForwardExcept(
                                              MissingKeyResult(key.exc[1]))))]
        ELSE [inv EXCEPT !.pc = "awaiting",
                         !.api_key = Some(key.value),
                         !.opened = @ + 1,
                         !.sent = @ + 1,
                         !.request = Some(PostRequest(tool_name, inv.arguments,
                                                      key.value))]

\* _forward_to_remote up to its only await that can suspend (client.post):
\* the credential is resolved; if that raises ValueError the function has
\* returned, otherwise a client is opened and the request posted.
ForwardStart(inv, tool_name, args) ==
    LET key == API_KEY(args)
    IN  IF key.kind = "raise"
        THEN [inv EXCEPT !.pc = "done",
                         !.log = @ \o <<LogKeyFailed(key.exc[1])>>,
                         !.outcome = Some(CallToolExcept(ForwardExcept(
                                              MissingKeyResult(key.exc[1]))))]
        ELSE [inv EXCEPT !.pc = "awaiting",
                         !.api_key = Some(key.value),
                         !.log = @ \o <<LogKeyRetrieved(key.value),
                                        LogMakingCall(Headers(key.value))>>,
                         !.opened = @ + 1,
                         !.sent = @ + 1,
                         !.request = Some(PostRequest(tool_name, inv.arguments,
                                                      key.value))]

\* call_tool(name, arguments) up to the point where it suspends or returns.
CallToolStart(inv, args) ==
    LET handler == Dispatch(inv.name)
    IN  IF handler = None
        THEN [inv EXCEPT !.pc = "done",
                         !.outcome = Some(CallToolExcept(UnknownToolResult(inv.name)))]
        ELSE ForwardStart(inv, handler[1], args)

\* Variant: the answer is kept in a variable shared by the invocations, so
\* an invocation renders the answer another invocation in hand has had.
CallToolFinish_SharedAnswer(inv, response) ==
    LET held == {t \in Tasks : task[t].pc = "done" /\ task[t].response # None}
        answer == IF held # {}
                  THEN task[CHOOSE t \in held : TRUE].response[1]
                  ELSE response
    IN  [inv EXCEPT !.pc = "done",
                    !.response = Some(response),
                    !.outcome = Some(CallToolExcept(ForwardExcept(AfterPost(answer))))]

\* Variant: the texts are collected in a list shared by the invocations, so
\* an outcome opens with the texts of an invocation still in hand.
CallToolFinish_SharedList(inv, response) ==
    LET r == CallToolExcept(ForwardExcept(AfterPost(response)))
        held == {t \in Tasks : task[t].pc = "done"}
    IN  [inv EXCEPT !.pc = "done",
                    !.response = Some(response),
                    !.outcome =
                        IF held # {} /\ r.kind = "return"
                        THEN Some(Return(task[CHOOSE t \in held : TRUE].outcome[1].value
                                         \o r.value))
                        ELSE Some(r)]

\* Variant: a request that failed at the transport is posted once more.
CallToolFinish_Retry(inv, response) ==
    [inv EXCEPT !.pc = "done",
                !.response = Some(response),
                !.sent = IF response.exc # None THEN @ + 1 ELSE @,
                !.outcome = Some(CallToolExcept(ForwardExcept(AfterPost(response))))]

\* The rest of _forward_to_remote and of call_tool once client.post is over.
CallToolFinish(inv, response) ==
    [inv EXCEPT !.pc = "done",
                !.response = Some(response),
                !.log = @ \o LogExcept(inv.request[1].json.params.name,
                                       AfterPost(response)),
                !.outcome = Some(CallToolExcept(ForwardExcept(AfterPost(response))))]

\* The hosting runtime invokes call_tool(name, arguments) on task t.
CallTool(t, name, arguments) ==
    /\ task[t].pc = "idle"
    /\ calls < MaxCalls
    /\ LET inv == CallToolStart([Idle EXCEPT !.name = name,
                                             !.arguments = arguments], argv)
       IN  /\ task' = [task EXCEPT ![t] = inv]
           /\ posts' = posts + inv.sent
    /\ calls' = calls + 1
    /\ UNCHANGED <<argv, reply>>

\* Variant: the answers are taken in the order of the tasks, a later task
\* waiting for an earlier one that is suspended.
Respond_InTurn(t, response) ==
    /\ task[t].pc = "awaiting"
    /\ ~(t = "t2" /\ task["t1"].pc = "awaiting")
    /\ LET inv == CallToolFinish(task[t], response)
       IN  /\ task' = [task EXCEPT ![t] = inv]
           /\ posts' = posts + (inv.sent - task[t].sent)
    /\ UNCHANGED <<argv, calls, reply>>

\* The HTTP call of task t ends: an answer arrives or client.post raises.
Respond(t, response) ==
    /\ task[t].pc = "awaiting"
    /\ LET inv == CallToolFinish(task[t], response)
       IN  /\ task' = [task EXCEPT ![t] = inv]
           /\ posts' = posts + (inv.sent - task[t].sent)
    /\ UNCHANGED <<argv, calls, reply>>

\* Variant: the answer and the outcome of the invocation are kept for the
\* next one.
Finish_KeepsPayload(t) ==
    /\ task[t].pc = "done"
    /\ task' = [task EXCEPT ![t] = [Idle EXCEPT !.response = task[t].response,
                                                !.outcome = task[t].outcome]]
    /\ UNCHANGED <<argv, calls, posts, reply>>

\* The hosting runtime takes the outcome of task t; the invocation is over.
Finish(t) ==
    /\ task[t].pc = "done"
    /\ task' = [task EXCEPT ![t] = Idle]
    /\ UNCHANGED <<argv, calls, posts, reply>>

\* The hosting runtime cancels the task: asyncio raises CancelledError at
\* the await of client.post, the "async with" closes the client, and the
\* exception goes through the except clauses of _forward_to_remote and of
\* call_tool.
Cancel(t) ==
    /\ task[t].pc = "awaiting"
    /\ LET inv == CallToolFinish(task[t], PostRaises(Exc("CancelledError", <<>>)))
       IN  /\ task' = [task EXCEPT ![t] =
                          [inv EXCEPT !.pc = "cancelled", !.response = None]]
           /\ posts' = posts + (inv.sent - task[t].sent)
    /\ UNCHANGED <<argv, calls, reply>>

\* The cancelled task is gone.
Discard(t) ==
    /\ task[t].pc = "cancelled"
    /\ task' = [task EXCEPT ![t] = Idle]
    /\ UNCHANGED <<argv, calls, posts, reply>>

\* The credential source changes between invocations.
SetArgv(args) ==
    /\ args # argv
    /\ argv' = args
    /\ UNCHANGED <<task, calls, posts, reply>>

\* The hosting runtime asks for the tool list.
ListToolsCall ==
    /\ reply' = [op |-> "list_tools", name |-> "", arguments |-> None,
                 result |-> ListTools]
    /\ UNCHANGED <<argv, task, calls, posts>>

\* The hosting runtime asks for the prompt list.
ListPromptsCall ==
    /\ reply' = [op |-> "list_prompts", name |-> "", arguments |-> None,
                 result |-> list_prompts]
    /\ UNCHANGED <<argv, task, calls, posts>>

\* The hosting runtime asks for the prompt name with the argument bag.
GetPromptCall(name, arguments) ==
    /\ reply' = [op |-> "get_prompt", name |-> name, arguments |-> arguments,
                 result |-> get_prompt(name, arguments)]
    /\ UNCHANGED <<argv, task, calls, posts>>

\* settings.API_KEY is read.
ReadApiKey ==
    /\ reply' = [op |-> "API_KEY", name |-> "", arguments |-> None,
                 result |-> API_KEY(argv)]
    /\ UNCHANGED <<argv, task, calls, posts>>

\* One word is added to or taken from the end of sys.argv[1:].
EditArgv ==
    /\ \/ \E w \in ArgWords : Len(argv) < MaxArgs /\ argv' = Append(argv, w)
       \/ argv # <<>> /\ argv' = SubSeq(argv, 1, Len(argv) - 1)
    /\ UNCHANGED <<task, calls, posts, reply>>

Next ==
    \/ \E t \in Tasks : \E name \in NamesOf(t) : \E arguments \in ArgsOf(t, name) :
          CallTool(t, name, arguments)
    \/ \E t \in Tasks : \E response \in ResponsesOf(t) : Respond(t, response)
    \/ \E t \in Tasks : Finish(t)
    \/ \E args \in ArgvChoices : SetArgv(args)

Spec == Init /\ [][Next]_vars

\* The server with every kind of request: both tasks invoke the few tools
\* of the second task, and the lists and prompts are asked for in between.
NextRequests ==
    \/ \E t \in Tasks : \E name \in NamesOf("t2") :
          \E arguments \in ArgsOf("t2", name) : CallTool(t, name, arguments)
    \/ \E t \in Tasks : \E response \in ResponsesOf("t2") : Respond(t, response)
    \/ \E t \in Tasks : Finish(t)
    \/ \E args \in ArgvChoices : SetArgv(args)
    \/ ListToolsCall
    \/ ListPromptsCall
    \/ \E name \in PromptNames : \E arguments \in PromptArgs :
          GetPromptCall(name, arguments)

SpecRequests == Init /\ [][NextRequests]_vars

\* The tool invocations of the two tasks alone.
NextCalls ==
    \/ \E t \in Tasks : \E name \in NamesOf("t2") :
          \E arguments \in ArgsOf("t2", name) : CallTool(t, name, arguments)
    \/ \E t \in Tasks : \E response \in ResponsesOf("t2") : Respond(t, response)
    \/ \E t \in Tasks : Finish(t)
    \/ \E args \in ArgvChoices : SetArgv(args)

\* The tool invocations when the hosting runtime may cancel them.
NextCancel ==
    \/ NextCalls
    \/ \E t \in Tasks : Cancel(t)
    \/ \E t \in Tasks : Discard(t)

SpecCancel == Init /\ [][NextCancel]_vars

\* The tool invocations with a transport that keeps its word: client.post
\* is given REQUEST_TIMEOUT as its time limit (line 556), so every request
\* in flight is answered, fails or times out, and the event loop resumes
\* the task that awaits it.
SpecLive ==
    /\ Init
    /\ [][NextCalls]_vars
    /\ \A t \in Tasks :
          WF_vars(\E response \in ResponsesOf("t2") : Respond(t, response))

\* The credential lookup alone, on every argument list of at most MaxArgs
\* words.
InitConfig ==
    /\ argv \in ArgLists(MaxArgs)
    /\ task = [t \in Tasks |-> Idle]
    /\ calls = 0
    /\ posts = 0
    /\ reply = NoReply

NextConfig == ReadApiKey \/ EditArgv

SpecConfig == InitConfig /\ [][NextConfig]_vars

(***************************************************************************)
(* Properties                                                              *)
(***************************************************************************)

\* The single text of a finished invocation, as a Python str.
OutcomeOf(t) == task[t].outcome[1]

TextOf(t) == Flat(OutcomeOf(t).value[1].text)

OneTextBlock(r) ==
    /\ r.kind = "return"
    /\ Len(r.value) = 1
    /\ r.value[1].type = "text"

\* A credential is available in args: the argument after the first
\* "--api-key" exists and is not empty.
CredentialIn(args) ==
    \E i \in 1..(Len(args) - 1) :
        /\ args[i] = "--api-key"
        /\ \A j \in 1..(i - 1) : args[j] # "--api-key"
        /\ args[i + 1] # ""

\* Task t starts an invocation in this step.
Starts(t) == task[t].pc = "idle" /\ task'[t].pc # "idle"

\* s has piece a at some position and piece b at a later one.
PieceThenPiece(s, a, b) ==
    \E i \in 1..Len(s) : \E j \in (i + 1)..Len(s) : s[i] = a /\ s[j] = b

\* C1: whatever the tool name, the arguments and the behaviour of the remote
\* call, a finished call_tool invocation has returned a list of exactly one
\* text block and has raised nothing; an unfinished one has no outcome.
C1_OneTextNoException ==
    \A t \in Tasks :
        IF task[t].pc = "done"
        THEN task[t].outcome # None /\ OneTextBlock(OutcomeOf(t))
        ELSE task[t].outcome = None

\* A registered tool whose client.post raised has finished with one text.
C1_Witness ==
    /\ task["t1"].pc = "done"
    /\ task["t1"].name = "pia_search_content"
    /\ task["t1"].response # None
    /\ task["t1"].response[1].exc = Some(Exc("Exception", <<"Test error">>))
    /\ OneTextBlock(OutcomeOf("t1"))

\* C2: an invocation of a registered tool started while no credential is
\* available finishes at once with the text "Error: PIA API key is required.
\* Please provide --api-key argument. Configure API key in MCP server
\* settings." and opens no HTTP client and sends no POST.
C2_NoCredentialNoRequest ==
    [][\A t \in Tasks :
          (Starts(t) /\ task'[t].name \in RegisteredNames /\ ~CredentialIn(argv))
          => /\ task'[t].pc = "done"
             /\ OneTextBlock(task'[t].outcome[1])
             /\ PieceThenPiece(task'[t].outcome[1].value[1].text,
                               "API key is required", ConfigureHint)
             /\ Flat(task'[t].outcome[1].value[1].text)
                  = "Error: PIA API key is required. Please provide --api-key argument."
                    \o " Configure API key in MCP server settings."
             /\ task'[t].opened = 0
             /\ task'[t].sent = 0
             /\ task'[t].request = None
             /\ posts' = posts]_vars

\* fetch was invoked with "--api-key" followed by the empty string.
C2_Witness ==
    /\ argv = <<"--api-key", "">>
    /\ task["t1"].pc = "done"
    /\ task["t1"].name = "fetch"
    /\ task["t1"].arguments = FetchArgs
    /\ task["t1"].sent = 0
    /\ posts = 0
    /\ calls = 1

\* C3: an invocation under a name that is not exactly a registered name
\* finishes at once with the single text "Error: Unknown tool {name}" and
\* sends no HTTP request, with or without a credential.
C3_UnknownTool ==
    [][\A t \in Tasks :
          (Starts(t) /\ task'[t].name \notin RegisteredNames)
          => /\ task'[t].pc = "done"
             /\ OneTextBlock(task'[t].outcome[1])
             /\ Flat(task'[t].outcome[1].value[1].text)
                  = "Error: Unknown tool " \o task'[t].name
             /\ task'[t].opened = 0
             /\ task'[t].sent = 0
             /\ task'[t].request = None
             /\ posts' = posts]_vars

\* "Fetch" (a registered name in another case) was invoked with a credential.
C3_Witness ==
    /\ CredentialIn(argv)
    /\ task["t1"].pc = "done"
    /\ task["t1"].name = "Fetch"
    /\ TextOf("t1") = "Error: Unknown tool Fetch"
    /\ posts = 0
    /\ calls = 1

\* The answer task t got was a 2xx response whose body is JSON.
GotJson(t) ==
    /\ task[t].pc = "done"
    /\ task[t].response # None
    /\ task[t].response[1].exc = None
    /\ task[t].response[1].status \in 200..299
    /\ task[t].response[1].json # None

BodyOf(t) == task[t].response[1].json[1]

\* The member of object body under the key, when there is one.
Member(body, key) ==
    IF body.t = "obj" /\ (\E i \in 1..Len(body.o) : body.o[i][1] = key)
    THEN Some(body.o[CHOOSE i \in 1..Len(body.o) : body.o[i][1] = key][2])
    ELSE None

\* The credential in args: the argument after the first "--api-key".
CredentialOf(args) ==
    args[(CHOOSE i \in 1..(Len(args) - 1) :
             /\ args[i] = "--api-key"
             /\ \A j \in 1..(i - 1) : args[j] # "--api-key") + 1]

\* C4: an invocation of a registered tool started with a credential sends
\* exactly one POST; no step after the start sends another, whatever the
\* answer; and the POSTs sent never outnumber the invocations started.
C4_OnePostNoRetry ==
    [][/\ \A t \in Tasks :
             (Starts(t) /\ task'[t].name \in RegisteredNames /\ CredentialIn(argv))
             => /\ task'[t].pc = "awaiting"
                /\ task'[t].sent = 1
                /\ task'[t].opened = 1
                /\ posts' = posts + 1
       /\ \A t \in Tasks :
             ~Starts(t) => (task'[t].pc = "idle" \/ task'[t].sent = task[t].sent)
       /\ (\A t \in Tasks : ~Starts(t)) => posts' = posts
       /\ posts' <= calls'
       /\ \A t \in Tasks : task'[t].sent <= 1]_vars

\* A registered tool was invoked twice with a credential and got a timeout
\* the second time: two invocations, two POSTs.
C4_Witness ==
    /\ task["t1"].pc = "done"
    /\ task["t1"].name = "pia_search_titles"
    /\ task["t1"].response = Some(PostRaises(Exc("ReadTimeout", <<>>)))
    /\ task["t1"].sent = 1
    /\ task["t2"].pc = "idle"
    /\ calls = 2
    /\ posts = 2

\* C5: when the answer is 2xx with a JSON object whose error member is an
\* object with the message M (a string), the text is "API Error: " + M.
C5_ApiErrorMessage ==
    \A t \in Tasks :
        (/\ GotJson(t)
         /\ Member(BodyOf(t), ErrorKey) # None
         /\ Member(Member(BodyOf(t), ErrorKey)[1], MessageKey) # None
         /\ Member(Member(BodyOf(t), ErrorKey)[1], MessageKey)[1].t = "str")
        => /\ OneTextBlock(OutcomeOf(t))
           /\ TextOf(t) = "API Error: "
                \o Flat(Member(Member(BodyOf(t), ErrorKey)[1], MessageKey)[1].s)

\* The remote answered with the error {code: -32000, message: "Invalid API key"}.
C5_Witness ==
    /\ GotJson("t1")
    /\ task["t1"].name = "pia_search_content_gao"
    /\ BodyOf("t1") = ErrorBody(ErrorObject(-32000, MsgInvalidKey))
    /\ TextOf("t1") = "API Error: Invalid API key"

\* C6: when the answer has a status S outside 200..299 and the body B, the
\* text is "HTTP Error S: B" whatever B holds, and one POST was sent.
C6_HttpError ==
    \A t \in Tasks :
        (/\ task[t].pc = "done"
         /\ task[t].response # None
         /\ task[t].response[1].exc = None
         /\ task[t].response[1].status \notin 200..299)
        => /\ OneTextBlock(OutcomeOf(t))
           /\ TextOf(t) = "HTTP Error " \o ToString(task[t].response[1].status)
                \o ": " \o Flat(task[t].response[1].text)
           /\ task[t].sent = 1

\* The remote answered 404 with a body that is a JSON-RPC error.
C6_Witness ==
    /\ task["t1"].pc = "done"
    /\ task["t1"].name = "pia_search_content_doj"
    /\ task["t1"].response # None
    /\ task["t1"].response[1].status = 404
    /\ task["t1"].response[1].json # None
    /\ TextOf("t1") = "HTTP Error 404: {\"error\": {\"message\": \"gone\"}}"

\* C7: when the answer is 2xx with a JSON object that has a result member R
\* and no error member, the text parses as JSON to a value equal to R.
C7_RenderRoundTrip ==
    \A t \in Tasks :
        (/\ GotJson(t)
         /\ BodyOf(t).t = "obj"
         /\ Member(BodyOf(t), ErrorKey) = None
         /\ Member(BodyOf(t), ResultKey) # None)
        => /\ OneTextBlock(OutcomeOf(t))
           /\ json_loads(OutcomeOf(t).value[1].text).ok
           /\ json_loads(OutcomeOf(t).value[1].text).val
                = Member(BodyOf(t), ResultKey)[1]

\* The result held quotes, a backslash, control and non-ASCII characters.
C7_Witness ==
    /\ GotJson("t1")
    /\ task["t1"].name = "search"
    /\ BodyOf("t1") = ResultBody(EscapesResult)
    /\ json_loads(OutcomeOf("t1").value[1].text).val = EscapesResult

\* C8: the arguments member of the params of the request an invocation sends
\* is the argument bag the invocation was given, key for key and value for
\* value.
C8_ArgumentsVerbatim ==
    [][\A t \in Tasks :
          \A name \in NamesOf(t) : \A arguments \in ArgsOf(t, name) :
              (CallTool(t, name, arguments) /\ task'[t].request # None)
              => task'[t].request[1].json.params.arguments = arguments]_vars

\* The content search was invoked with a query and an OData filter string.
C8_Witness ==
    /\ task["t1"].pc = "awaiting"
    /\ task["t1"].name = "pia_search_content"
    /\ task["t1"].request # None
    /\ task["t1"].request[1].json.params.arguments = FilterArgs
    /\ Member(task["t1"].request[1].json.params.arguments, <<"filter">>)
         = Some(JStr(<<"data_source eq 'GAO'">>))

\* C9: an invocation of a registered tool N with arguments A started with the
\* credential K sends one POST to the configured URL with the JSON-RPC body
\* {jsonrpc "2.0", id 1, method "tools/call", params {name N, arguments A}}
\* and the headers Content-Type: application/json and x-api-key: K.
C9_RequestEnvelope ==
    [][\A t \in Tasks :
          \A name \in NamesOf(t) \cap RegisteredNames : \A arguments \in ArgsOf(t, name) :
              (CallTool(t, name, arguments) /\ CredentialIn(argv))
              => /\ task'[t].sent = 1
                 /\ task'[t].request # None
                 /\ task'[t].request[1].url = "https://mcp.programintegrity.org/"
                 /\ task'[t].request[1].json
                      = [jsonrpc |-> "2.0", id |-> 1, method |-> "tools/call",
                         params |-> [name |-> name, arguments |-> arguments]]
                 /\ DOMAIN task'[t].request[1].headers
                      = {"Content-Type", "x-api-key"}
                 /\ task'[t].request[1].headers["Content-Type"] = "application/json"
                 /\ task'[t].request[1].headers["x-api-key"] = CredentialOf(argv)]_vars

\* The executive-orders search was invoked with the second key.
C9_Witness ==
    /\ argv = <<"--debug", "--api-key", KeyB>>
    /\ task["t1"].pc = "awaiting"
    /\ task["t1"].name = "pia_search_content_executive_orders"
    /\ task["t1"].request # None
    /\ task["t1"].request[1].json.params.name = "pia_search_content_executive_orders"
    /\ task["t1"].request[1].headers["x-api-key"] = KeyB

\* C10: when client.post raises an exception that is not an HTTP-status
\* error, with the message E, or the 2xx body is not JSON (the decoder's
\* message E), the text is "Error: " + E and one POST was sent.
C10_ExceptionText ==
    \A t \in Tasks :
        /\ (/\ task[t].pc = "done"
            /\ task[t].response # None
            /\ task[t].response[1].exc # None
            /\ task[t].response[1].exc[1].cls # "HTTPStatusError")
           => /\ OneTextBlock(OutcomeOf(t))
              /\ TextOf(t) = "Error: " \o Flat(task[t].response[1].exc[1].msg)
              /\ task[t].sent = 1
        /\ (/\ task[t].pc = "done"
            /\ task[t].response # None
            /\ task[t].response[1].exc = None
            /\ task[t].response[1].status \in 200..299
            /\ task[t].response[1].json = None)
           => /\ OneTextBlock(OutcomeOf(t))
              /\ TextOf(t) = "Error: Expecting value: line 1 column 1 (char 0)"
              /\ task[t].sent = 1

\* The 2xx body was "<html>", which is not JSON.
C10_Witness ==
    /\ task["t1"].pc = "done"
    /\ task["t1"].name = "pia_search_content_crs"
    /\ task["t1"].response = Some(HttpResponse(200, <<"<html>">>, None))
    /\ TextOf("t1") = "Error: Expecting value: line 1 column 1 (char 0)"
    /\ posts = 1

\* The outcome of task t is a rendered result: the answer was a 2xx JSON
\* object with a result member and no error member.
Rendered(t) ==
    /\ GotJson(t)
    /\ Member(BodyOf(t), ResultKey) # None
    /\ Member(BodyOf(t), ErrorKey) = None

\* text opens with "Error: ", with "API Error: " or with "HTTP Error ", a
\* number and ": ".
StartsWithTag(text) ==
    /\ text # <<>>
    /\ \/ text[1] \in {"Error: ", "API Error: "}
       \/ /\ text[1] = "HTTP Error "
          /\ \E k \in 2..(Len(text) - 1) :
                /\ \A i \in 2..k : IsDigit(text[i])
                /\ text[k + 1] = ": "

\* C11: every finished invocation whose outcome is not a rendered result
\* (unknown tool, missing credential, exception, timeout, non-2xx status,
\* error member, or a 2xx body with neither a result nor an error member)
\* has a text that starts with "Error:", "API Error:" or "HTTP Error {code}:".
C11_FailureTagged ==
    \A t \in Tasks :
        (task[t].pc = "done" /\ ~Rendered(t))
        => /\ OneTextBlock(OutcomeOf(t))
           /\ StartsWithTag(OutcomeOf(t).value[1].text)

\* The names test_list_tools expects.
ExpectedTools ==
    {"pia_search_content", "pia_search_content_facets", "pia_search_titles",
     "pia_search_titles_facets", "pia_search_content_gao",
     "pia_search_content_oig", "pia_search_content_crs",
     "pia_search_content_doj", "pia_search_content_congress", "search",
     "fetch"}

\* The elements of a sequence.
Range(s) == {s[i] : i \in 1..Len(s)}

\* C12: list_tools returns exactly 11 tools, and the eleven expected names
\* are among them.
C12_ElevenTools ==
    reply.op = "list_tools"
    => /\ Len(reply.result) = 11
       /\ ExpectedTools \subseteq Range(reply.result)

\* No element of s occurs twice.
NoDuplicates(s) == \A i, j \in 1..Len(s) : i # j => s[i] # s[j]

\* C13: whatever was asked before (tool invocations started or finished,
\* list_prompts, get_prompt, a change of sys.argv), the answer of list_tools
\* is the twelve registered names in registration order, each name once.
C13_ToolListStable ==
    reply.op = "list_tools"
    => /\ NoDuplicates(reply.result)
       /\ reply.result
            = <<"pia_search_content", "pia_search_content_facets",
                "pia_search_titles", "pia_search_titles_facets",
                "pia_search_content_gao", "pia_search_content_oig",
                "pia_search_content_crs", "pia_search_content_doj",
                "pia_search_content_congress",
                "pia_search_content_executive_orders", "search", "fetch">>

\* list_tools was asked after two invocations had started, one of them
\* finished with an unknown name and the other still awaiting its answer.
C13_Witness ==
    /\ reply.op = "list_tools"
    /\ NoDuplicates(reply.result)
    /\ Len(reply.result) = 12
    /\ calls = 2
    /\ task["t1"].pc = "done"
    /\ task["t1"].name \notin RegisteredNames
    /\ task["t2"].pc = "awaiting"

\* C14: whatever happened before, an invocation of a registered tool that
\* starts while sys.argv holds a credential posts with exactly that
\* credential, and one that starts while it holds none ends with the
\* missing-credential text; earlier invocations and earlier values of
\* sys.argv play no part.  list_tools answers with no credential.
C14_CredentialPerCall ==
    [][/\ \A t \in Tasks :
             (Starts(t) /\ task'[t].name \in RegisteredNames)
             => IF CredentialIn(argv)
                THEN /\ task'[t].pc = "awaiting"
                     /\ task'[t].api_key = Some(CredentialOf(argv))
                     /\ task'[t].request[1].headers["x-api-key"]
                          = CredentialOf(argv)
                ELSE /\ task'[t].pc = "done"
                     /\ task'[t].api_key = None
                     /\ Flat(task'[t].outcome[1].value[1].text)
                          = "Error: " \o Flat(ApiKeyRequiredMsg) \o ConfigureHint
       /\ (reply' # reply /\ reply'.op = "list_tools" /\ ~CredentialIn(argv))
          => Len(reply'.result) = 12]_vars

\* One invocation ended for want of a credential, and another, started
\* after sys.argv had been given the second key, is posted with that key.
C14_Witness ==
    /\ task["t2"].pc = "done"
    /\ task["t2"].name \in RegisteredNames
    /\ task["t2"].api_key = None
    /\ TextOf("t2") = "Error: " \o Flat(ApiKeyRequiredMsg) \o ConfigureHint
    /\ argv = <<"--debug", "--api-key", KeyB>>
    /\ task["t1"].pc = "awaiting"
    /\ task["t1"].api_key = Some(KeyB)
    /\ calls = 2
    /\ posts = 1

\* The positions of "--api-key" in args.
KeyFlagAt(args) == {i \in 1..Len(args) : args[i] = "--api-key"}

\* The least element of a non-empty set of numbers.
Least(S) == CHOOSE i \in S : \A j \in S : i <= j

\* What C15 says settings.API_KEY gives for sys.argv[1:] = args.
ApiKeyAsStated(args, result) ==
    IF \/ Len(args) < 2
       \/ KeyFlagAt(args) = {}
       \/ Least(KeyFlagAt(args)) = Len(args)
       \/ args[Least(KeyFlagAt(args)) + 1] = ""
    THEN /\ result.kind = "raise"
         /\ result.exc[1].cls = "ValueError"
         /\ PieceThenPiece(result.exc[1].msg, "PIA ", "API key is required")
         /\ Flat(result.exc[1].msg)
              = "PIA API key is required. Please provide --api-key argument."
    ELSE /\ result.kind = "return"
         /\ result.value = args[Least(KeyFlagAt(args)) + 1]

\* C15: settings.API_KEY returns the argument right after the first
\* "--api-key" of sys.argv[1:], and raises ValueError("PIA API key is
\* required. ...") when there are fewer than two arguments, when "--api-key"
\* does not occur, when it is the last argument, or when the argument after
\* it is the empty string.
C15_ApiKeyFromArgv ==
    [][(reply' # reply /\ reply'.op = "API_KEY")
       => ApiKeyAsStated(argv, reply'.result)]_vars

\* "--api-key" occurs twice and the key follows the first occurrence.
C15_Witness ==
    /\ argv = <<"--api-key", KeyA, "--api-key">>
    /\ reply.op = "API_KEY"
    /\ reply.result = Return(KeyA)

\* The names in the prompt catalog.
CatalogNames == {"summarization_guidance", "content_search_guidance",
                 "titles_search_guidance", "recommendations_guidance"}

\* C16: get_prompt with a name that is not in the catalog raises
\* ValueError("Prompt '{name}' not found") and returns nothing, whatever the
\* argument bag (absent, empty or not).
C16_UnknownPromptRaises ==
    (reply.op = "get_prompt" /\ reply.name \notin CatalogNames)
    => /\ reply.result.kind = "raise"
       /\ reply.result.value = <<>>
       /\ reply.result.exc # None
       /\ reply.result.exc[1].cls = "ValueError"
       /\ Flat(reply.result.exc[1].msg)
            = "Prompt '" \o reply.name \o "' not found"

\* A catalog name in another case was asked for with a non-empty bag.
C16_Witness ==
    /\ reply.op = "get_prompt"
    /\ reply.name = "Summarization_Guidance"
    /\ reply.arguments = Some(JObj(<< <<(<<"topic">>), JStr(<<"{name}">>)>> >>))
    /\ reply.result.kind = "raise"
    /\ Flat(reply.result.exc[1].msg) = "Prompt 'Summarization_Guidance' not found"

\* C17: get_prompt with a name that is not in the catalog raises nothing
\* to the hosting runtime: it returns one message whose text tells the error.
C17_UnknownPromptIsText ==
    (reply.op = "get_prompt" /\ reply.name \notin CatalogNames)
    => /\ reply.result.kind = "return"
       /\ reply.result.exc = None
       /\ Len(reply.result.value.messages) = 1
       /\ reply.result.value.messages[1].content.text # <<>>

\* The fields of the one template that has any (line 85), as they would
\* stand in the text if nothing had been put in their place.
PlaceholderMarkers == {"{name}", "{arguments}"}

\* result is a returned prompt of one message whose text is not empty and
\* holds no placeholder marker.
FilledText(result) ==
    /\ result.kind = "return"
    /\ Len(result.value.messages) = 1
    /\ Flat(result.value.messages[1].content.text) # ""
    /\ \A i \in 1..Len(result.value.messages[1].content.text) :
          result.value.messages[1].content.text[i] \notin PlaceholderMarkers

ListedDescription(name) ==
    list_prompts[CHOOSE i \in 1..Len(list_prompts) :
                     list_prompts[i].name = name].description

\* C19: list_prompts always answers with the same four prompts in the same
\* order; and for each of their names get_prompt with the arguments absent
\* or empty raises nothing and returns exactly one message, of role user,
\* with a non-empty text, under the description list_prompts reports.
C19_CatalogPromptsRender ==
    /\ reply.op = "list_prompts"
       => /\ Len(reply.result) = 4
          /\ [i \in 1..4 |-> reply.result[i].name]
               = <<"summarization_guidance", "content_search_guidance",
                   "titles_search_guidance", "recommendations_guidance">>
    /\ (/\ reply.op = "get_prompt"
        /\ reply.name \in {list_prompts[i].name : i \in 1..Len(list_prompts)}
        /\ reply.arguments \in {None, Some(JObj(<<>>))})
       => /\ reply.result.kind = "return"
          /\ reply.result.exc = None
          /\ Len(reply.result.value.messages) = 1
          /\ reply.result.value.messages[1].role = "user"
          /\ reply.result.value.messages[1].content.type = "text"
          /\ Flat(reply.result.value.messages[1].content.text) # ""
          /\ reply.result.value.description = ListedDescription(reply.name)

\* The last prompt of the list was asked for with no arguments at all.
C19_Witness ==
    /\ reply.op = "get_prompt"
    /\ reply.name = "recommendations_guidance"
    /\ reply.arguments = None
    /\ reply.result.kind = "return"
    /\ Len(reply.result.value.messages) = 1
    /\ reply.result.value.description
         = "Provides guidance for questions about oversight recommendations data and how to search for recommendation information"

AloneOutcome(response) ==
    Some(CallToolExcept(ForwardExcept(AfterPost(response))))

\* Task t takes the answer of its HTTP call in this step.
Resumes(t) == task[t].pc = "awaiting" /\ task'[t].pc = "done"

RequiredField(name) ==
    CASE name = "fetch" -> Some(<<"id">>)
      [] name \in {"pia_search_content_facets", "pia_search_titles_facets"} -> None
      [] OTHER -> Some(<<"query">>)

\* The argument bag lacks the field the tool requires.
LacksRequired(name, arguments) ==
    /\ RequiredField(name) # None
    /\ ~HasKey(arguments.o, RequiredField(name)[1])

\* C22: an invocation of a registered tool whose arguments lack the tool's
\* required field ("id" for fetch, "query" for the search tools that
\* require it) is ended locally and nothing is posted; any other argument
\* bag is posted as it is when a credential is available.
C22_RequiredFieldChecked ==
    [][\A t \in Tasks :
          (Starts(t) /\ task'[t].name \in RegisteredNames /\ CredentialIn(argv))
          => IF LacksRequired(task'[t].name, task'[t].arguments)
             THEN /\ task'[t].pc = "done"
                  /\ task'[t].sent = 0
                  /\ task'[t].request = None
                  /\ posts' = posts
             ELSE /\ task'[t].pc = "awaiting"
                  /\ task'[t].sent = 1
                  /\ task'[t].request[1].json.params.arguments
                       = task'[t].arguments]_vars

\* C23: an invocation suspended on its HTTP call ends with an outcome once
\* the transport answers, fails or times out; and while it is suspended the
\* other task can start an invocation, and an invocation of the other task
\* that is suspended too can take its answer.
C23_EventualOutcome ==
    /\ \A t \in Tasks :
          (task[t].pc = "awaiting")
          ~> (task[t].pc = "done" /\ task[t].outcome # None)
    /\ [](\A t, u \in Tasks :
             (t # u /\ task[t].pc = "awaiting")
             => /\ (task[u].pc = "idle" /\ calls < MaxCalls)
                   => ENABLED CallTool(u, "search", FetchArgs)
                /\ task[u].pc = "awaiting"
                   => ENABLED Respond(u, HttpResponse(500, <<"Server Error">>, None)))

\* The first task is still suspended on its HTTP call while the second has
\* posted its own request and finished with the text of its answer.
C23_Witness ==
    /\ task["t1"].pc = "awaiting"
    /\ task["t1"].outcome = None
    /\ task["t2"].pc = "done"
    /\ task["t2"].sent = 1
    /\ TextOf("t2") = "HTTP Error 500: Server Error"
    /\ calls = 2
    /\ posts = 2

\* The hosting runtime takes the outcome of task t in this step.
Returns(t) == task[t].pc = "done" /\ task'[t].pc = "idle"

\* C24: through every step of every operation the argument bag the caller
\* passed stays as it was passed and is the bag in the request; every
\* request goes to the configured URL with the configured timeout, however
\* many invocations came before; list_tools and list_prompts answer from the
\* registry and the catalog as they were at the start; and once an
\* invocation has returned, nothing of it (request, answer, outcome) is kept.
C24_NothingMutated ==
    [][/\ \A t \in Tasks :
             (task[t].pc # "idle" /\ task'[t].pc # "idle")
             => /\ task'[t].arguments = task[t].arguments
                /\ task'[t].name = task[t].name
                /\ task'[t].request = task[t].request
       /\ \A t \in Tasks :
             task'[t].request # None
             => /\ task'[t].request[1].json.params.arguments = task'[t].arguments
                /\ task'[t].request[1].url = "https://mcp.programintegrity.org/"
                /\ task'[t].request[1].timeout = 60
       /\ \A t \in Tasks :
             Returns(t)
             => /\ task'[t].response = None
                /\ task'[t].outcome = None
                /\ task'[t].request = None
                /\ task'[t].api_key = None
                /\ task'[t].arguments = NoArgs
       /\ reply'.op = "list_tools" => Len(reply'.result) = 12
       /\ reply'.op = "list_prompts" => Len(reply'.result) = 4
       /\ (reply' # reply) => task' = task]_vars

\* After three invocations, two of them returned, the first task is back
\* at rest with nothing kept while the second holds a fresh request.
C24_Witness ==
    /\ calls = 3
    /\ posts = 3
    /\ task["t1"] = Idle
    /\ task["t2"].pc = "awaiting"
    /\ task["t2"].request[1].json.params.arguments = FetchArgs
    /\ task["t2"].request[1].timeout = 60
    /\ reply.op = "get_prompt"

\* The hosting runtime cancels task t in this step.
Cancelled(t) == task[t].pc = "awaiting" /\ task'[t].pc = "cancelled"

\* C25: when an invocation is cancelled while its HTTP call is in flight,
\* no further request is sent, the invocation ends with the
\* CancelledError raised to the runtime and with no text (neither except
\* clause turns it into "Error: ..."), and the other invocation, sys.argv
\* and the counters of the other operations stay as they were.
C25_CancelAbandons ==
    [][\A t \in Tasks :
          Cancelled(t)
          => /\ task'[t].sent = task[t].sent
             /\ task'[t].opened = task[t].opened
             /\ posts' = posts
             /\ task'[t].outcome # None
             /\ task'[t].outcome[1].kind = "raise"
             /\ task'[t].outcome[1].value = <<>>
             /\ task'[t].outcome[1].exc[1].cls = "CancelledError"
             /\ \A u \in Tasks \ {t} : task'[u] = task[u]
             /\ UNCHANGED <<argv, calls, reply>>]_vars

\* The first invocation was cancelled in flight; the second, in flight at
\* the same time, went on to its own outcome.
C25_Witness ==
    /\ task["t1"].pc = "cancelled"
    /\ task["t1"].sent = 1
    /\ task["t1"].outcome[1].kind = "raise"
    /\ task["t2"].pc = "done"
    /\ TextOf("t2") = "0"
    /\ calls = 2
    /\ posts = 2

\* The names of the tool modules that server.py does not import.
UnregisteredModules == {"pia_search", "pia_search_facets", "get_rate_limit_stats"}

\* The text with which the else branch of call_tool answers the name.
UnknownToolText(name) == "Error: Unknown tool " \o name

\* C26: an invocation is answered "Error: Unknown tool {name}" exactly when
\* its name is not among the names list_tools returns; with a credential
\* every listed name is posted to the remote endpoint and no other name is;
\* pia_search, pia_search_facets and get_rate_limit_stats are answered
\* "Error: Unknown tool".
C26_DispatchMatchesList ==
    [][\A t \in Tasks :
          Starts(t)
          => /\ (task'[t].name \in Range(ListTools))
                <=> ~(/\ task'[t].pc = "done"
                      /\ Flat(task'[t].outcome[1].value[1].text)
                           = UnknownToolText(task'[t].name))
             /\ CredentialIn(argv)
                => ((task'[t].name \in Range(ListTools)) <=> (task'[t].sent = 1))
             /\ task'[t].name \in UnregisteredModules
                => /\ task'[t].pc = "done"
                   /\ task'[t].sent = 0
                   /\ Flat(task'[t].outcome[1].value[1].text)
                        = UnknownToolText(task'[t].name)]_vars

\* The name of the unregistered facets module was invoked with a credential
\* and a full argument bag.
C26_Witness ==
    /\ CredentialIn(argv)
    /\ task["t1"].pc = "done"
    /\ task["t1"].name = "pia_search_facets"
    /\ task["t1"].arguments = AllArgs
    /\ TextOf("t1") = "Error: Unknown tool pia_search_facets"
    /\ task["t1"].sent = 0

\* C27: when a 2xx JSON object has an error member that is an object, the
\* text is "API Error: " and the error's message, or "API Error: Unknown
\* error" when the error has no message; a result member in the same body
\* changes nothing and is not rendered.
C27_ErrorBeforeResult ==
    \A t \in Tasks :
        (/\ GotJson(t)
         /\ Member(BodyOf(t), ErrorKey) # None
         /\ Member(BodyOf(t), ErrorKey)[1].t = "obj")
        => LET error == Member(BodyOf(t), ErrorKey)[1]
               message == Member(error, MessageKey)
               result == Member(BodyOf(t), ResultKey)
           IN  /\ OneTextBlock(OutcomeOf(t))
               /\ OutcomeOf(t).value[1].text[1] = "API Error: "
               /\ message = None => TextOf(t) = "API Error: Unknown error"
               /\ (message # None /\ message[1].t = "str")
                  => TextOf(t) = "API Error: " \o Flat(message[1].s)
               /\ result # None => TextOf(t) # Flat(json_dumps(result[1]))

\* The body held the error "Invalid API key" and a result with documents.
C27_Witness ==
    /\ GotJson("t1")
    /\ BodyOf("t1") = JObj(<< <<ErrorKey, ErrorObject(-32000, MsgInvalidKey)>>,
                              <<ResultKey, DocumentsResult>> >>)
    /\ TextOf("t1") = "API Error: Invalid API key"
    /\ task["t1"].sent = 1

\* The 2xx JSON body of task t is not of the two JSON-RPC shapes by its
\* values: it is no object, or its error member is no object.
OddBody(t) ==
    /\ GotJson(t)
    /\ \/ BodyOf(t).t # "obj"
       \/ /\ Member(BodyOf(t), ErrorKey) # None
          /\ Member(BodyOf(t), ErrorKey)[1].t # "obj"

\* C28: a 2xx body that has an error key whose value is not an object
\* (null, say, next to a result R), or that is not a JSON object at all, is
\* answered with one text "Error: ..." that carries the message of the
\* internal exception: neither R rendered nor "API Error: ..."; and one
\* request was sent, no second one.
C28_OddBodyIsError ==
    \A t \in Tasks :
        OddBody(t)
        => /\ OneTextBlock(OutcomeOf(t))
           /\ OutcomeOf(t).value[1].text[1] = "Error: "
           /\ Len(OutcomeOf(t).value[1].text) > 1
           /\ Member(BodyOf(t), ResultKey) # None
              => TextOf(t) # Flat(json_dumps(Member(BodyOf(t), ResultKey)[1]))
           /\ task[t].sent = 1

\* The texts of the string values in an argument bag.
ArgumentValues(arguments) ==
    IF arguments = None THEN {}
    ELSE {Flat(arguments[1].o[i][2].s) : i \in 1..Len(arguments[1].o)}

\* C29: when get_prompt is asked twice running for the same catalog name,
\* whatever the two argument bags (absent, empty, or holding a value), the
\* second answer is the first one, text and description; and no value of
\* the bag stands in the text.
C29_ArgumentsIgnored ==
    [][(/\ reply'.op = "get_prompt"
        /\ reply'.name \in CatalogNames)
       => /\ reply'.result.kind = "return"
          /\ \A i \in 1..Len(reply'.result.value.messages[1].content.text) :
                reply'.result.value.messages[1].content.text[i]
                   \notin ArgumentValues(reply'.arguments)
          /\ (reply.op = "get_prompt" /\ reply.name = reply'.name)
             => reply'.result = reply.result]_vars

\* summarization_guidance was asked for with a bag that holds a value; the
\* text is the template, its literal <SEARCH_RESULTS> line included.
C29_Witness ==
    /\ reply.op = "get_prompt"
    /\ reply.name = "summarization_guidance"
    /\ reply.arguments = Some(JObj(<< <<(<<"topic">>), JStr(<<"{name}">>)>> >>))
    /\ reply.result.kind = "return"
    /\ \E i \in 1..Len(reply.result.value.messages[1].content.text) :
          reply.result.value.messages[1].content.text[i] = "<SEARCH_RESULTS>"
    /\ \A i \in 1..Len(reply.result.value.messages[1].content.text) :
          reply.result.value.messages[1].content.text[i] # "{name}"

\* The pieces of the log records task t has written.
LoggedPieces(t) ==
    UNION {{task[t].log[i].msg[k] : k \in 1..Len(task[t].log[i].msg)} :
              i \in 1..Len(task[t].log)}

\* The pieces of the text task t has returned.
ReturnedPieces(t) ==
    IF task[t].pc = "done" /\ OutcomeOf(t).kind = "return"
    THEN {OutcomeOf(t).value[1].text[k] :
             k \in 1..Len(OutcomeOf(t).value[1].text)}
    ELSE {}

\* C30: the credential an invocation has resolved is the x-api-key header
\* of its request and stands nowhere else: in no log record the forwarder
\* has written, and not in the text returned.
C30_CredentialOnlyInHeader ==
    \A t \in Tasks :
        task[t].api_key # None
        => /\ task[t].request[1].headers["x-api-key"] = task[t].api_key[1]
           /\ task[t].api_key[1] \notin LoggedPieces(t)
           /\ task[t].api_key[1] \notin ReturnedPieces(t)

=============================================================================
